---- MODULE Spec2Model ----
(***************************************************************************)
(* Model of utils/trainer.py: the Trainer of the two-phase                 *)
(* (classification, then earliness) training loop.  The state is the       *)
(* trainer's configuration and fields, the two checkpoint files of its     *)
(* store, and the position of fit() in its loop.                           *)
(***************************************************************************)
EXTENDS Integers, Sequences, FiniteSets

\* ---------------------------------------------------------------- bounds
MaxEpochs == 3
MaxCadence == 2
MaxBatches == 2

\* ------------------------------------------------------------- constants
CLASSIFICATION_PHASE_NAME == "classification"
EARLINESS_PHASE_NAME == "earliness"

Slots == {CLASSIFICATION_PHASE_NAME, EARLINESS_PHASE_NAME}

\* The loss modes loss_criterion tests for, and one string it does not know.
ValidLossModes ==
  {"early_reward", "loss_cross_entropy", "twophase_early_reward",
   "twophase_linear_loss", "twophase_cross_entropy"}
LossModes == ValidLossModes \cup {"twophase_early_simple"}

\* The (earliness factor, entropy factor) pairs passed: the constructor's
\* defaults 0.7 and 0.3, in tenths, and a second pair.
Factors == {<<7, 3>>, <<5, 1>>}
Inputs == {"batchA", "batchB"}

\* The epoch argument of loss_criterion: <<>> is None, <<e>> is the number e.
EpochParams == {<<>>} \cup {<<e>> : e \in 0..MaxEpochs}

VARIABLES
  epochs, switch_epoch, test_every_n_epochs, lossmode, visdomenv,
  nTrainBatches, nValidBatches,
  pc, epoch, optimizer, weights, logger, stats, files,
  resumed, events, writes, trainPasses, testPasses, ops,
  call, phaseOut, saved, checked, overwriteGiven

config == <<epochs, switch_epoch, test_every_n_epochs, lossmode, visdomenv,
            nTrainBatches, nValidBatches>>
history == <<events, writes, trainPasses, testPasses, checked>>
vars == <<config, pc, epoch, optimizer, weights, logger, stats, files,
          resumed, history, ops, call, phaseOut, saved, overwriteGiven>>

\* ------------------------------------------------------------ get_phase
\* get_phase() with the switch epoch itself still counted as classification.
GetPhaseInclusive(e, sw) ==
  IF e <= sw THEN CLASSIFICATION_PHASE_NAME ELSE EARLINESS_PHASE_NAME

\* get_phase() at epoch counter e with switch epoch sw
GetPhase(e, sw) ==
  IF e < sw THEN CLASSIFICATION_PHASE_NAME ELSE EARLINESS_PHASE_NAME

\* ------------------------------------------------------- loss_criterion
\* One invocation of a loss function of the model.
Invoke(fn, inputs, args) == [fn |-> fn, inputs |-> inputs, args |-> args]
Returned(invocations) == [error |-> "none", calls |-> invocations]
Raised(err) == [error |-> err, calls |-> <<>>]

\* A twophase_* branch that takes the mode's own loss in both phases.
TwoPhaseOwnLossOnly(phase, inputs, earlyFn, earlyArgs) ==
  Returned(<<Invoke(earlyFn, inputs, earlyArgs)>>)

\* The branch of a twophase_* mode: cross entropy in the classification
\* phase, the mode's own loss in the earliness phase.
TwoPhase(phase, inputs, earlyFn, earlyArgs) ==
  IF phase = CLASSIFICATION_PHASE_NAME
    THEN Returned(<<Invoke("loss_cross_entropy", inputs, <<>>)>>)
  ELSE IF phase = EARLINESS_PHASE_NAME
    THEN Returned(<<Invoke(earlyFn, inputs, earlyArgs)>>)
  ELSE Returned(<<>>)

\* A loss_criterion whose last branch falls back to cross entropy.
LossCriterionDefaulting(mode, e, sw, inputs, param, ef, enf) ==
  IF param = <<>>
    THEN Returned(<<Invoke("loss_cross_entropy", inputs, <<>>)>>)
  ELSE IF mode = "early_reward"
    THEN Returned(<<Invoke("early_loss", inputs, <<ef>>)>>)
  ELSE IF mode = "twophase_early_reward"
    THEN TwoPhase(GetPhase(e, sw), inputs, "early_loss_simple", <<ef>>)
  ELSE IF mode = "twophase_linear_loss"
    THEN TwoPhase(GetPhase(e, sw), inputs, "early_loss_linear", <<ef, enf>>)
  ELSE IF mode = "twophase_cross_entropy"
    THEN TwoPhase(GetPhase(e, sw), inputs, "early_loss_cross_entropy", <<ef, enf>>)
  ELSE Returned(<<Invoke("loss_cross_entropy", inputs, <<>>)>>)

\* A loss_criterion whose early_reward mode waits for the earliness phase.
LossCriterionEarlyRewardPhased(mode, e, sw, inputs, param, ef, enf) ==
  IF param = <<>>
    THEN Returned(<<Invoke("loss_cross_entropy", inputs, <<>>)>>)
  ELSE IF mode = "early_reward"
    THEN TwoPhase(GetPhase(e, sw), inputs, "early_loss", <<ef>>)
  ELSE IF mode = "loss_cross_entropy"
    THEN Returned(<<Invoke("loss_cross_entropy", inputs, <<>>)>>)
  ELSE IF mode = "twophase_early_reward"
    THEN TwoPhase(GetPhase(e, sw), inputs, "early_loss_simple", <<ef>>)
  ELSE IF mode = "twophase_linear_loss"
    THEN TwoPhase(GetPhase(e, sw), inputs, "early_loss_linear", <<ef, enf>>)
  ELSE IF mode = "twophase_cross_entropy"
    THEN TwoPhase(GetPhase(e, sw), inputs, "early_loss_cross_entropy", <<ef, enf>>)
  ELSE Raised("ValueError")

\* A loss_criterion that tests the loss mode before it tests for a null epoch.
LossCriterionNoneLast(mode, e, sw, inputs, param, ef, enf) ==
  IF mode = "early_reward"
    THEN Returned(<<Invoke("early_loss", inputs, <<ef>>)>>)
  ELSE IF mode = "loss_cross_entropy"
    THEN Returned(<<Invoke("loss_cross_entropy", inputs, <<>>)>>)
  ELSE IF mode = "twophase_early_reward"
    THEN TwoPhase(GetPhase(e, sw), inputs, "early_loss_simple", <<ef>>)
  ELSE IF mode = "twophase_linear_loss"
    THEN TwoPhase(GetPhase(e, sw), inputs, "early_loss_linear", <<ef, enf>>)
  ELSE IF mode = "twophase_cross_entropy"
    THEN TwoPhase(GetPhase(e, sw), inputs, "early_loss_cross_entropy", <<ef, enf>>)
  ELSE IF param = <<>>
    THEN Returned(<<Invoke("loss_cross_entropy", inputs, <<>>)>>)
  ELSE Raised("ValueError")

\* loss_criterion(inputs, targets, epoch, earliness_factor, entropy_factor)
\* on a trainer with loss mode `mode`, epoch counter e and switch epoch sw.
LossCriterion(mode, e, sw, inputs, param, ef, enf) ==
  IF param = <<>>
    THEN Returned(<<Invoke("loss_cross_entropy", inputs, <<>>)>>)
  ELSE IF mode = "early_reward"
    THEN Returned(<<Invoke("early_loss", inputs, <<ef>>)>>)
  ELSE IF mode = "loss_cross_entropy"
    THEN Returned(<<Invoke("loss_cross_entropy", inputs, <<>>)>>)
  ELSE IF mode = "twophase_early_reward"
    THEN TwoPhase(GetPhase(e, sw), inputs, "early_loss_simple", <<ef>>)
  ELSE IF mode = "twophase_linear_loss"
    THEN TwoPhase(GetPhase(e, sw), inputs, "early_loss_linear", <<ef, enf>>)
  ELSE IF mode = "twophase_cross_entropy"
    THEN TwoPhase(GetPhase(e, sw), inputs, "early_loss_cross_entropy", <<ef, enf>>)
  ELSE Raised("ValueError")

\* A call of loss_criterion on a trainer in state (mode, e, sw), as the caller
\* sees it: what was passed, and what the dispatch did.
Dispatch(mode, e, sw, inputs, param, ef, enf) ==
  [mode |-> mode, epoch |-> e, inputs |-> inputs, param |-> param,
   earliness_factor |-> ef, entropy_factor |-> enf,
   result |-> LossCriterion(mode, e, sw, inputs, param, ef, enf)]

\* ------------------------------------------------------------------ Logger
\* Logger: the current channel and the series logged so far.
FreshLogger == [mode |-> "train", data |-> <<>>]
SetMode(lg, m) == [lg EXCEPT !.mode = m]
Log(lg, st, e) ==
  [lg EXCEPT !.data = Append(@, [mode |-> lg.mode, epoch |-> e, stats |-> st])]
GetData(lg) == lg.data
LoggerResume(lg, data) == [lg EXCEPT !.data = data]

\* ------------------------------------------------------- Model.save, load
\* Model.save(path, **metadata): the blob holds the weights and the metadata.
ModelSave(w, metadata) == [weights |-> w, metadata |-> metadata]
\* Model.load(path): the weights are loaded into the model, the metadata returned.
ModelLoad(blob) == blob.metadata
LoadedWeights(blob) == blob.weights

\* ------------------------------------------------------- snapshot, resume
\* A snapshot that leaves the logged series out of the metadata.
SnapshotWithoutLog(e, opt, lg, w) ==
  ModelSave(w, [optimizer_state_dict |-> opt, epoch |-> e, logged_data |-> <<>>])

\* snapshot(filename): the blob written.
Snapshot(e, opt, lg, w) ==
  ModelSave(w, [optimizer_state_dict |-> opt, epoch |-> e, logged_data |-> GetData(lg)])

\* A resume that leaves the epoch counter where the constructor set it.
ResumeWithoutEpoch(blob, lg) ==
  LET snapshot == ModelLoad(blob)
  IN [epoch |-> 0,
      optimizer |-> snapshot.optimizer_state_dict,
      logger |-> LoggerResume(lg, snapshot.logged_data),
      weights |-> LoadedWeights(blob)]

\* resume(filename): the trainer's fields after it, from the blob read.
Resume(blob, lg) ==
  LET snapshot == ModelLoad(blob)
  IN [epoch |-> snapshot.epoch,
      optimizer |-> snapshot.optimizer_state_dict,
      logger |-> LoggerResume(lg, snapshot.logged_data),
      weights |-> LoadedWeights(blob)]

\* ---------------------------------------------------------- check_events
\* The events check_events fires at epoch counter e, in order.
EventsDue(e, sw, eps) ==
  IF e = 0 THEN <<"StartingClassification">>
  ELSE IF e = sw THEN <<"EndingClassification", "StartingEarliness">>
  ELSE IF e = eps THEN <<"EndingEarliness">>
  ELSE <<>>

\* The checkpoint slot an event handler snapshots to, if any.
SlotOf(ev) ==
  IF ev = "EndingClassification" THEN <<CLASSIFICATION_PHASE_NAME>>
  ELSE IF ev = "EndingEarliness" THEN <<EARLINESS_PHASE_NAME>>
  ELSE <<>>

RECURSIVE SlotsWritten(_)
SlotsWritten(evs) ==
  IF evs = <<>> THEN <<>> ELSE SlotOf(Head(evs)) \o SlotsWritten(Tail(evs))

SeqRange(s) == {s[i] : i \in 1..Len(s)}
Stamp(s, e) == [i \in 1..Len(s) |-> <<s[i], e>>]

\* check_events(): fires the events due and saves the snapshots they ask for.
CheckEvents ==
  LET due == EventsDue(epoch, switch_epoch, epochs)
      slots == SlotsWritten(due)
      snap == Snapshot(epoch, optimizer, logger, weights)
      \* the trainer's own values at the moment of the save, kept for comparison
      now == [epoch |-> epoch, optimizer |-> optimizer, data |-> logger.data,
              weights |-> weights]
  IN /\ events' = events \o Stamp(due, epoch)
     /\ checked' = Append(checked, epoch)
     /\ writes' = writes \o Stamp(slots, epoch)
     /\ files' = [s \in Slots |-> IF s \in SeqRange(slots) THEN <<snap>> ELSE files[s]]
     /\ saved' = [s \in Slots |-> IF s \in SeqRange(slots) THEN <<now>> ELSE saved[s]]

\* A new_epoch() that advances the counter first and checks the events of the
\* new value.
NewEpochBodyAdvanceFirst ==
  LET due == EventsDue(epoch + 1, switch_epoch, epochs)
      slots == SlotsWritten(due)
      snap == Snapshot(epoch + 1, optimizer, logger, weights)
      now == [epoch |-> epoch + 1, optimizer |-> optimizer, data |-> logger.data,
              weights |-> weights]
  IN /\ epoch' = epoch + 1
     /\ events' = events \o Stamp(due, epoch + 1)
     /\ checked' = Append(checked, epoch + 1)
     /\ writes' = writes \o Stamp(slots, epoch + 1)
     /\ files' = [s \in Slots |-> IF s \in SeqRange(slots) THEN <<snap>> ELSE files[s]]
     /\ saved' = [s \in Slots |-> IF s \in SeqRange(slots) THEN <<now>> ELSE saved[s]]

\* new_epoch()
NewEpochBody ==
  /\ CheckEvents
  /\ epoch' = epoch + 1

\* ------------------------------------------------------------ construction
\* A constructor that resumes whenever the classification checkpoint exists.
ConstructIgnoringOverwrite(overwrite) ==
  /\ pc \in {"start", "done", "failed"}
  /\ LET resume == files[CLASSIFICATION_PHASE_NAME] # <<>>
         r == Resume(files[CLASSIFICATION_PHASE_NAME][1], FreshLogger)
     IN /\ resumed' = resume
        /\ epoch' = IF resume THEN r.epoch ELSE 0
        /\ optimizer' = IF resume THEN r.optimizer ELSE <<>>
        /\ weights' = IF resume THEN r.weights ELSE <<>>
        /\ logger' = IF resume THEN r.logger ELSE FreshLogger
  /\ pc' = "loop"
  /\ stats' = "none"
  /\ events' = <<>> /\ writes' = <<>> /\ trainPasses' = <<>> /\ testPasses' = <<>>
  /\ checked' = <<>>
  /\ ops' = <<>>
  /\ overwriteGiven' = overwrite
  /\ UNCHANGED <<config, files, saved, call, phaseOut>>

\* Trainer(...): a fresh trainer, resumed from the classification checkpoint
\* when that file exists and overwrite is off.
Construct(overwrite) ==
  /\ pc \in {"start", "done", "failed"}
  /\ LET resume == files[CLASSIFICATION_PHASE_NAME] # <<>> /\ ~overwrite
         r == Resume(files[CLASSIFICATION_PHASE_NAME][1], FreshLogger)
     IN /\ resumed' = resume
        /\ epoch' = IF resume THEN r.epoch ELSE 0
        /\ optimizer' = IF resume THEN r.optimizer ELSE <<>>
        /\ weights' = IF resume THEN r.weights ELSE <<>>
        /\ logger' = IF resume THEN r.logger ELSE FreshLogger
  /\ pc' = "loop"
  /\ stats' = "none"
  /\ events' = <<>> /\ writes' = <<>> /\ trainPasses' = <<>> /\ testPasses' = <<>>
  /\ checked' = <<>>
  /\ ops' = <<>>
  /\ overwriteGiven' = overwrite
  /\ UNCHANGED <<config, files, saved, call, phaseOut>>

\* ----------------------------------------------------------------- fit()
\* A loop test that lets the counter reach epochs before it stops.
NewEpochInclusive ==
  /\ pc = "loop"
  /\ epoch <= epochs
  /\ NewEpochBody
  /\ pc' = "train"
  /\ UNCHANGED <<config, optimizer, weights, logger, stats, resumed,
                 trainPasses, testPasses, ops, call, phaseOut, overwriteGiven>>

\* while self.epoch < self.epochs: self.new_epoch()
NewEpoch ==
  /\ pc = "loop"
  /\ epoch < epochs
  /\ NewEpochBody
  /\ pc' = "train"
  /\ UNCHANGED <<config, optimizer, weights, logger, stats, resumed,
                 trainPasses, testPasses, ops, call, phaseOut, overwriteGiven>>

\* A batch of train_epoch that does not clear the gradients first.
TrainBatchOpsNoZeroGrad(res) ==
  IF res.error # "none" THEN <<"loss_criterion">>
  ELSE <<"loss_criterion", "backward", "step">>

\* The operations of one batch of train_epoch, given the loss dispatch's result.
TrainBatchOps(res) ==
  IF res.error # "none" THEN <<"zero_grad", "loss_criterion">>
  ELSE <<"zero_grad", "loss_criterion", "backward", "step">>

RECURSIVE Repeat(_, _)
Repeat(s, n) == IF n = 0 THEN <<>> ELSE s \o Repeat(s, n - 1)

\* logger.set_mode("train"); stats = self.train_epoch(self.epoch)
TrainPass ==
  /\ pc = "train"
  /\ LET made == Dispatch(lossmode, epoch, switch_epoch, "batchA", <<epoch>>, 7, 3)
         res == made.result
         lossFn == IF res.calls = <<>> THEN "None" ELSE res.calls[1].fn
     IN /\ trainPasses' = Append(trainPasses, epoch)
        /\ IF nTrainBatches = 0
             THEN \* no batch: `stats` is unbound at the return
                  /\ pc' = "failed"
                  /\ UNCHANGED <<optimizer, weights, stats, call>>
                  /\ ops' = <<>>
           ELSE IF res.error # "none" \/ res.calls = <<>>
             THEN \* the first batch's dispatch raises, or returns nothing to unpack
                  /\ pc' = "failed"
                  /\ call' = <<made>>
                  /\ ops' = TrainBatchOps(Raised("error"))
                  /\ UNCHANGED <<optimizer, weights, stats>>
           ELSE /\ pc' = "test"
                /\ call' = <<made>>
                /\ ops' = Repeat(TrainBatchOps(res), nTrainBatches)
                /\ optimizer' = optimizer \o Repeat(<<lossFn>>, nTrainBatches)
                /\ weights' = weights \o Repeat(<<lossFn>>, nTrainBatches)
                /\ stats' = "train"
  /\ logger' = SetMode(logger, "train")
  /\ UNCHANGED <<config, epoch, files, saved, resumed, events, writes, checked, testPasses, phaseOut, overwriteGiven>>

\* The cadence test applied to the epoch before the increment.
TestDueZeroBased(e, n) == (e - 1) % n = 0

\* self.epoch % self.test_every_n_epochs == 0
TestDue(e, n) == e % n = 0

\* if the test is due: the test pass, logged under "test"
TestPass ==
  /\ pc = "test"
  /\ TestDue(epoch, test_every_n_epochs)
  /\ LET made == Dispatch(lossmode, epoch, switch_epoch, "batchA", <<epoch>>, 7, 3)
         res == made.result
     IN /\ testPasses' = Append(testPasses, epoch)
        /\ IF nValidBatches = 0 \/ res.error # "none" \/ res.calls = <<>>
             THEN /\ pc' = "failed"
                  /\ logger' = SetMode(logger, "test")
                  /\ call' = IF nValidBatches = 0 THEN call ELSE <<made>>
                  /\ ops' = IF nValidBatches = 0 THEN <<>> ELSE <<"loss_criterion">>
                  /\ UNCHANGED stats
           ELSE /\ pc' = "report"
                /\ call' = <<made>>
                /\ ops' = Repeat(<<"loss_criterion">>, nValidBatches)
                /\ stats' = "test"
                /\ logger' = Log(SetMode(logger, "test"), [pass |-> "test", epoch |-> epoch], epoch)
  /\ UNCHANGED <<config, epoch, optimizer, weights, files, saved, resumed, events, writes, checked,
                 trainPasses, phaseOut, overwriteGiven>>

\* the epoch is no multiple of the test cadence: no test pass
SkipTest ==
  /\ pc = "test"
  /\ ~TestDue(epoch, test_every_n_epochs)
  /\ pc' = "report"
  /\ UNCHANGED <<config, epoch, optimizer, weights, logger, stats, files, saved, resumed,
                 history, ops, call, phaseOut, overwriteGiven>>

\* The visual report of lines 121-139, which reads self.visdom and the
\* confusion matrix, targets, probas, inputs and weights of `stats`.
\* `carried`: whether the stats mapping of a train pass holds those keys,
\* which the model's loss functions and the metric accumulator decide.
Report ==
  /\ pc = "report"
  /\ \E carried \in BOOLEAN :
       pc' = IF visdomenv /\ (stats = "test" \/ carried) THEN "loop" ELSE "failed"
  /\ UNCHANGED <<config, epoch, optimizer, weights, logger, stats, files, saved, resumed,
                 history, ops, call, phaseOut, overwriteGiven>>

\* after the loop: self.check_events(); return self.logger.data
FinalCheck ==
  /\ pc = "loop"
  /\ ~(epoch < epochs)
  /\ CheckEvents
  /\ pc' = "done"
  /\ UNCHANGED <<config, epoch, optimizer, weights, logger, stats, resumed,
                 trainPasses, testPasses, ops, call, phaseOut, overwriteGiven>>

\* ----------------------------------------------------------- specification
Configs ==
  /\ epochs \in 0..MaxEpochs
  /\ switch_epoch \in 0..MaxEpochs
  /\ test_every_n_epochs \in 1..MaxCadence
  /\ lossmode \in LossModes
  /\ visdomenv \in BOOLEAN
  /\ nTrainBatches \in 0..MaxBatches
  /\ nValidBatches \in 0..MaxBatches

Blank ==
  /\ epoch = 0
  /\ optimizer = <<>>
  /\ weights = <<>>
  /\ logger = FreshLogger
  /\ stats = "none"
  /\ files = [s \in Slots |-> <<>>]
  /\ resumed = FALSE
  /\ events = <<>> /\ writes = <<>> /\ trainPasses = <<>> /\ testPasses = <<>>
  /\ ops = <<>>
  /\ call = <<>>
  /\ phaseOut = <<>>
  /\ saved = [s \in Slots |-> <<>>]
  /\ checked = <<>>
  /\ overwriteGiven = TRUE

Init ==
  /\ Configs
  /\ pc = "start"
  /\ Blank

Next ==
  \/ \E overwrite \in BOOLEAN : Construct(overwrite)
  \/ NewEpoch
  \/ TrainPass
  \/ TestPass
  \/ SkipTest
  \/ Report
  \/ FinalCheck

Spec == Init /\ [][Next]_vars

\* ------------------------------------------------ the methods, called directly
\* A caller holding a constructed trainer calls get_phase(), loss_criterion()
\* and new_epoch() itself, in any order, instead of fit().

\* get_phase()
GetPhaseCall ==
  /\ pc = "loop"
  /\ phaseOut' = <<[epoch |-> epoch, phase |-> GetPhase(epoch, switch_epoch)]>>
  /\ UNCHANGED <<config, pc, epoch, optimizer, weights, logger, stats, files, saved,
                 resumed, history, ops, call, overwriteGiven>>

\* A loss_criterion call that advances the epoch counter on its way.
LossCallAdvancing ==
  /\ pc = "loop"
  /\ epoch < MaxEpochs
  /\ \E inputs \in Inputs, param \in EpochParams, f \in Factors :
       call' = <<Dispatch(lossmode, epoch, switch_epoch, inputs, param, f[1], f[2])>>
  /\ epoch' = epoch + 1
  /\ UNCHANGED <<config, pc, optimizer, weights, logger, stats, files, saved,
                 resumed, history, ops, phaseOut, overwriteGiven>>

\* loss_criterion(inputs, targets, epoch, earliness_factor, entropy_factor)
LossCall ==
  /\ pc = "loop"
  /\ \E inputs \in Inputs, param \in EpochParams, f \in Factors :
       call' = <<Dispatch(lossmode, epoch, switch_epoch, inputs, param, f[1], f[2])>>
  /\ UNCHANGED <<config, pc, epoch, optimizer, weights, logger, stats, files, saved,
                 resumed, history, ops, phaseOut, overwriteGiven>>

\* new_epoch(), as long as the counter is within the model's bound
NewEpochCall ==
  /\ pc = "loop"
  /\ epoch < MaxEpochs
  /\ NewEpochBody
  /\ UNCHANGED <<config, pc, optimizer, weights, logger, stats, resumed,
                 trainPasses, testPasses, ops, call, phaseOut, overwriteGiven>>

DispatchInit ==
  /\ epochs \in 0..MaxEpochs
  /\ switch_epoch \in 0..MaxEpochs
  /\ lossmode \in LossModes
  /\ test_every_n_epochs = 1
  /\ visdomenv = TRUE
  /\ nTrainBatches = 1
  /\ nValidBatches = 1
  /\ pc = "start"
  /\ Blank

DispatchNext ==
  \/ \E overwrite \in BOOLEAN : Construct(overwrite)
  \/ GetPhaseCall
  \/ LossCall
  \/ NewEpochCall

DispatchSpec == DispatchInit /\ [][DispatchNext]_vars

\* ================================================================ properties
Count(s, x) == Cardinality({i \in 1..Len(s) : s[i] = x})
CountFirst(s, a) == Cardinality({i \in 1..Len(s) : s[i][1] = a})

\* A run of fit() from epoch 0 that ended without a failure.
FreshRunDone == pc = "done" /\ ~resumed

\* C1: in a failure-free run of fit() from epoch 0 with switch_epoch <= epochs,
\* the classification slot is written exactly once, at epoch counter
\* switch_epoch, the earliness slot exactly once, at epoch counter epochs, and
\* there is no other checkpoint write.
C1_CheckpointWrites ==
  (FreshRunDone /\ 0 <= switch_epoch /\ switch_epoch <= epochs) =>
     /\ Len(writes) = 2
     /\ Count(writes, <<CLASSIFICATION_PHASE_NAME, switch_epoch>>) = 1
     /\ Count(writes, <<EARLINESS_PHASE_NAME, epochs>>) = 1

\* The same, for a switch epoch strictly between 0 and epochs.
CheckpointWritesInside ==
  (FreshRunDone /\ 0 < switch_epoch /\ switch_epoch < epochs) =>
     writes = << <<CLASSIFICATION_PHASE_NAME, switch_epoch>>,
                 <<EARLINESS_PHASE_NAME, epochs>> >>

\* C2: in a failure-free run of fit() from epoch 0 with switch_epoch <= epochs,
\* the four events fire exactly once each, in the order StartingClassification,
\* EndingClassification, StartingEarliness, EndingEarliness, at epoch counter
\* 0, switch_epoch, switch_epoch and epochs.
C2_EventOrder ==
  (FreshRunDone /\ 0 <= switch_epoch /\ switch_epoch <= epochs) =>
     events = << <<"StartingClassification", 0>>,
                 <<"EndingClassification", switch_epoch>>,
                 <<"StartingEarliness", switch_epoch>>,
                 <<"EndingEarliness", epochs>> >>

\* The same, for a switch epoch strictly between 0 and epochs.
EventOrderInside ==
  (FreshRunDone /\ 0 < switch_epoch /\ switch_epoch < epochs) =>
     events = << <<"StartingClassification", 0>>,
                 <<"EndingClassification", switch_epoch>>,
                 <<"StartingEarliness", switch_epoch>>,
                 <<"EndingEarliness", epochs>> >>

\* The calls of loss_criterion and of get_phase made so far that are on record.
Calls == SeqRange(call)
PhaseCalls == SeqRange(phaseOut)
TwoPhaseModes ==
  {"twophase_early_reward", "twophase_linear_loss", "twophase_cross_entropy"}

\* C3: get_phase() returns Classification when the epoch counter is below
\* switch_epoch, Earliness when it is at or above it, and nothing else.
C3_GetPhase ==
  \A r \in PhaseCalls :
     /\ r.phase \in {CLASSIFICATION_PHASE_NAME, EARLINESS_PHASE_NAME}
     /\ (r.epoch < switch_epoch) => r.phase = CLASSIFICATION_PHASE_NAME
     /\ (r.epoch >= switch_epoch) => r.phase = EARLINESS_PHASE_NAME

\* get_phase() was called exactly at the switch epoch, after a classification phase.
C3_Witness ==
  \E r \in PhaseCalls :
     /\ switch_epoch >= 1
     /\ r.epoch = switch_epoch
     /\ r.phase = EARLINESS_PHASE_NAME

\* The loss function of a twophase_* mode in the earliness phase, with its factors.
OwnLoss(c) ==
  IF c.mode = "twophase_early_reward"
    THEN Invoke("early_loss_simple", c.inputs, <<c.earliness_factor>>)
  ELSE IF c.mode = "twophase_linear_loss"
    THEN Invoke("early_loss_linear", c.inputs, <<c.earliness_factor, c.entropy_factor>>)
  ELSE Invoke("early_loss_cross_entropy", c.inputs, <<c.earliness_factor, c.entropy_factor>>)

\* C4: with a twophase_* mode and a non-null epoch parameter, loss_criterion
\* invokes exactly one loss function of the model: loss_cross_entropy while the
\* trainer is in the classification phase, the mode's own loss with its factors
\* while it is in the earliness phase.
C4_TwoPhaseDispatch ==
  \A c \in Calls :
     (c.mode \in TwoPhaseModes /\ c.param # <<>>) =>
        /\ c.result.error = "none"
        /\ Len(c.result.calls) = 1
        /\ (c.epoch < switch_epoch) =>
              c.result.calls[1] = Invoke("loss_cross_entropy", c.inputs, <<>>)
        /\ (c.epoch >= switch_epoch) => c.result.calls[1] = OwnLoss(c)

\* twophase_linear_loss was dispatched in the earliness phase, after a
\* classification phase, and took the linear early loss.
C4_Witness ==
  \E c \in Calls :
     /\ c.mode = "twophase_linear_loss"
     /\ c.param # <<>>
     /\ switch_epoch >= 1
     /\ c.epoch >= switch_epoch
     /\ c.result.calls[1].fn = "early_loss_linear"

\* C5, as claimed: with a loss mode outside the known five, construction does
\* not fail and every call of loss_criterion raises the configuration error
\* and invokes no loss function, whatever the epoch parameter.
C5_UnknownModeAlwaysFails ==
  (lossmode \notin ValidLossModes) =>
     /\ pc # "failed"
     /\ \A c \in Calls : c.result.error = "ValueError" /\ c.result.calls = <<>>

\* C5, amended: with a loss mode outside the known five, construction does not
\* fail and every call of loss_criterion with a non-null epoch parameter raises
\* the configuration error and invokes no loss function.
C5_UnknownModeFails ==
  (lossmode \notin ValidLossModes) =>
     /\ pc # "failed"
     /\ \A c \in Calls :
           (c.param # <<>>) => c.result.error = "ValueError" /\ c.result.calls = <<>>

\* A trainer with an unknown mode was constructed and its dispatch raised.
C5_Witness ==
  /\ lossmode \notin ValidLossModes
  /\ pc = "loop"
  /\ \E c \in Calls : c.param # <<>> /\ c.result.error = "ValueError"

\* C6, as claimed: a run of fit() on a trainer resumed from the classification
\* checkpoint fires EndingClassification no second time and does not write the
\* classification slot again.
C6_NoReplayAfterResume ==
  resumed =>
     /\ CountFirst(events, "EndingClassification") = 0
     /\ CountFirst(writes, CLASSIFICATION_PHASE_NAME) = 0

\* The trainer as resume() left it: no step of fit() has run yet.
JustResumed == resumed /\ pc = "loop" /\ trainPasses = <<>> /\ events = <<>>

C8_NoStartingClassificationAfterResume ==
  resumed => CountFirst(events, "StartingClassification") = 0

\* A resumed trainer ran fit() to the end, firing events on the way.
C8_Witness ==
  /\ resumed
  /\ pc = "done"
  /\ trainPasses # <<>>
  /\ events # <<>>

\* C9: a failure-free run of fit() from epoch 0 runs the train pass once at each
\* epoch 1..epochs, the test pass once at each multiple of the cadence in
\* 1..epochs and at no other epoch, and ends with epoch = epochs.
C9_PassSchedule ==
  FreshRunDone =>
     /\ epoch = epochs
     /\ Len(trainPasses) = epochs
     /\ \A i \in 1..Len(trainPasses) : trainPasses[i] = i
     /\ Len(testPasses) = epochs \div test_every_n_epochs
     /\ \A i \in 1..Len(testPasses) : testPasses[i] = i * test_every_n_epochs

\* A run with cadence 2 over at least 3 epochs ended: some epochs had no test pass.
C9_Witness ==
  /\ FreshRunDone
  /\ test_every_n_epochs = 2
  /\ epochs >= 3
  /\ Len(testPasses) < Len(trainPasses)

\* Whether the logged series holds the stats of pass `m` of epoch e under channel m.
Logged(m, e) ==
  \E i \in 1..Len(logger.data) :
     logger.data[i] = [mode |-> m, epoch |-> e, stats |-> [pass |-> m, epoch |-> e]]

\* C10, as claimed: once the train pass of epoch e is over the logged series
\* holds its stats under "train", once the test pass of epoch e is over the
\* series holds its stats under "test", and the series fit() returns has one
\* train entry per epoch run.
C10_PassesLogged ==
  /\ (pc \in {"test", "report"}) => Logged("train", epoch)
  /\ (pc = "report" /\ stats = "test") => Logged("test", epoch)
  /\ FreshRunDone =>
        Cardinality({i \in 1..Len(logger.data) : logger.data[i].mode = "train"})
          = Len(trainPasses)

\* The part of C10 about the test pass.
TestPassLogged ==
  (pc = "report" /\ stats = "test") => Logged("test", epoch)

\* C11, as claimed: with loss mode loss_cross_entropy loss_criterion invokes
\* loss_cross_entropy, and with early_reward it invokes early_loss with the
\* earliness factor, whatever the trainer's phase: the function and arguments
\* selected depend on the inputs and the factor alone.
C11_PhaseIndependentModes ==
  \A c \in Calls :
     /\ (c.mode = "loss_cross_entropy") =>
           c.result = Returned(<<Invoke("loss_cross_entropy", c.inputs, <<>>)>>)
     /\ (c.mode = "early_reward") =>
           c.result = Returned(<<Invoke("early_loss", c.inputs, <<c.earliness_factor>>)>>)

\* C11, amended: the same for loss_cross_entropy, and for early_reward when the
\* epoch parameter is not null.
C11_PhaseIndependentModesNonNull ==
  \A c \in Calls :
     /\ (c.mode = "loss_cross_entropy") =>
           c.result = Returned(<<Invoke("loss_cross_entropy", c.inputs, <<>>)>>)
     /\ (c.mode = "early_reward" /\ c.param # <<>>) =>
           c.result = Returned(<<Invoke("early_loss", c.inputs, <<c.earliness_factor>>)>>)

\* early_reward was dispatched in the classification phase and took early_loss.
C11_Witness ==
  \E c \in Calls :
     /\ c.mode = "early_reward"
     /\ c.param # <<>>
     /\ c.epoch < switch_epoch
     /\ c.result.calls[1].fn = "early_loss"

\* C12: with a null epoch parameter loss_criterion invokes loss_cross_entropy,
\* and nothing else, for every loss mode and every epoch counter.
C12_NullEpochCrossEntropy ==
  \A c \in Calls :
     (c.param = <<>>) =>
        c.result = Returned(<<Invoke("loss_cross_entropy", c.inputs, <<>>)>>)

\* A null-epoch call was made in the earliness phase of a mode with its own loss.
C12_Witness ==
  \E c \in Calls :
     /\ c.param = <<>>
     /\ c.mode = "twophase_linear_loss"
     /\ c.epoch >= switch_epoch
     /\ c.result.calls[1].fn = "loss_cross_entropy"

\* Two calls of loss_criterion that were given the same parameters.
SameParameters(a, b) ==
  /\ a.param = b.param
  /\ a.mode = b.mode
  /\ a.inputs = b.inputs
  /\ a.earliness_factor = b.earliness_factor
  /\ a.entropy_factor = b.entropy_factor

\* The trainer's fields and its checkpoint files.
trainerState == <<epoch, optimizer, weights, logger, files>>

\* C13, as claimed: a call of loss_criterion changes no trainer state, and a
\* call given the same parameters as the call before it selects the same loss
\* function with the same arguments, whatever the epoch counter is by then.
C13_PureOfParameters ==
  [][ /\ (call' # call) => UNCHANGED trainerState
      /\ (call # <<>> /\ call' # <<>> /\ SameParameters(call[1], call'[1])) =>
            call'[1].result = call[1].result ]_vars

\* C13, amended: a call of loss_criterion changes no trainer state, and a call
\* given the same parameters as the call before it, and made in the same phase
\* of the trainer, selects the same loss function with the same arguments.
C13_PureOfParametersAndPhase ==
  [][ /\ (call' # call) => UNCHANGED trainerState
      /\ (/\ call # <<>> /\ call' # <<>>
          /\ SameParameters(call[1], call'[1])
          /\ (call[1].epoch < switch_epoch) = (call'[1].epoch < switch_epoch)) =>
            call'[1].result = call[1].result ]_vars

\* A call was made whose epoch parameter lies in the classification phase while
\* the trainer's own counter is in the earliness phase, and took the mode's own loss.
C13_Witness ==
  \E c \in Calls :
     /\ c.mode \in TwoPhaseModes
     /\ c.param # <<>>
     /\ c.param[1] < switch_epoch
     /\ c.epoch >= switch_epoch
     /\ c.result.calls[1].fn # "loss_cross_entropy"

Last(s) == s[Len(s)]

\* The loop of fit() is inside the iteration of epoch `epoch`: new_epoch() has
\* returned, the report of the epoch has not.
InIteration == pc \in {"train", "test", "report"}

\* C14, as claimed: the event check for an epoch value e >= 1 happens before the
\* train pass of epoch e: every epoch whose train pass has started had its
\* events checked already.
C14_EventsBeforeTraining ==
  \A i \in 1..Len(trainPasses) : Count(checked, trainPasses[i]) >= 1

\* C14, amended: in each iteration new_epoch() checks the events of the current
\* epoch value first and advances the counter then, so that in the iteration
\* of epoch e the last check made is that of e - 1 and the events of e have not
\* been checked; they are checked after the iteration, by the next new_epoch()
\* or by the check after the loop.
C14_EventsAfterTraining ==
  /\ InIteration =>
        /\ checked # <<>>
        /\ Last(checked) = epoch - 1
        /\ Count(checked, epoch) = 0
  /\ (pc = "done") => (checked # <<>> /\ Last(checked) = epoch)
  /\ \A i \in 1..Len(checked) :
        (i > 1) => Count(trainPasses, checked[i]) = 1

\* A run of two epochs or more ended: the events of each epoch e >= 1 were
\* checked after its train pass.
C14_Witness ==
  /\ pc = "done"
  /\ Len(trainPasses) >= 2
  /\ Len(checked) = Len(trainPasses) + 1

\* C15, as claimed: with a twophase_* mode and 1 <= switch_epoch <= epochs, every
\* optimizer step in the state the classification checkpoint holds was computed
\* from the cross-entropy loss.
C15_ClassificationCheckpointCrossEntropyOnly ==
  (/\ lossmode \in TwoPhaseModes
   /\ 1 <= switch_epoch /\ switch_epoch <= epochs
   /\ files[CLASSIFICATION_PHASE_NAME] # <<>>) =>
     LET steps == ModelLoad(files[CLASSIFICATION_PHASE_NAME][1]).optimizer_state_dict
     IN \A i \in 1..Len(steps) : steps[i] = "loss_cross_entropy"

\* C16, as claimed: whenever fit() reaches the report step, `stats` is the
\* result of a test pass of the same epoch.
C16_ReportFromTestStats ==
  (pc = "report") =>
     /\ stats = "test"
     /\ testPasses # <<>>
     /\ Last(testPasses) = epoch

\* The epoch counter a run of fit() started from: that of its first event check.
StartEpoch == Head(checked)

\* C17: the epoch counter is 0 on a fresh trainer; within a trainer's life it
\* is changed by new_epoch() alone, by +1, and stays within 0..epochs; a
\* failure-free fit() ends with epoch = epochs after epochs - start iterations.
C17_EpochCounter ==
  /\ [](/\ (pc = "loop" /\ ~resumed /\ checked = <<>>) => epoch = 0
        /\ (pc # "start") => (0 <= epoch /\ epoch <= epochs)
        /\ (pc = "done") =>
              /\ epoch = epochs
              /\ Len(trainPasses) = epochs - StartEpoch
              /\ Len(checked) = Len(trainPasses) + 1)
  /\ [][ (pc \notin {"start", "done", "failed"} /\ epoch' # epoch) =>
            /\ epoch' = epoch + 1
            /\ pc = "loop" /\ pc' = "train"
            /\ checked' = Append(checked, epoch) ]_vars

\* A resumed trainer with epochs still to run ended its fit().
C17_Witness ==
  /\ pc = "done"
  /\ resumed
  /\ StartEpoch >= 1
  /\ Len(trainPasses) >= 1

\* A trainer resumed at its last epoch ended its fit() without an iteration.
ResumedAtEnd ==
  /\ pc = "done"
  /\ resumed
  /\ StartEpoch = epochs
  /\ trainPasses = <<>>

\* The steps of fit() that are a test pass, and a train pass that ran to its end.
TestPassStep == Len(testPasses') = Len(testPasses) + 1
TrainPassStep == Len(trainPasses') = Len(trainPasses) + 1 /\ pc' = "test"

\* C18: a test pass clears no gradient, backpropagates nothing, steps no
\* optimizer and leaves the epoch counter, the optimizer state, the weights and
\* the checkpoint files as they were; a train pass over k batches applies
\* exactly k optimizer steps, each after one gradient clear, one loss dispatch
\* and one backpropagation of the same batch, in that order.
C18_PassEffects ==
  [][ /\ TestPassStep =>
           /\ UNCHANGED <<epoch, optimizer, weights, files>>
           /\ \A i \in 1..Len(ops') : ops'[i] \notin {"zero_grad", "backward", "step"}
      /\ TrainPassStep =>
           /\ Len(optimizer') = Len(optimizer) + nTrainBatches
           /\ SubSeq(optimizer', 1, Len(optimizer)) = optimizer
           /\ Count(ops', "step") = nTrainBatches
           /\ Len(ops') = 4 * nTrainBatches
           /\ \A b \in 0..(nTrainBatches - 1) :
                 SubSeq(ops', 4 * b + 1, 4 * b + 4)
                   = <<"zero_grad", "loss_criterion", "backward", "step">> ]_vars

\* A test pass over two batches or more has just run, after a train pass over
\* two batches or more.
C18_Witness ==
  /\ pc = "report"
  /\ stats = "test"
  /\ nValidBatches >= 2
  /\ Len(ops) = nValidBatches
  /\ nTrainBatches >= 2
  /\ Len(optimizer) >= nTrainBatches

\* The trainer as its constructor left it: no step of fit() has run yet.
JustConstructed == pc = "loop" /\ checked = <<>>

\* C19: the constructor resumes exactly when the classification checkpoint
\* exists and overwrite is off; it then starts with the epoch counter,
\* optimizer state and logged series of that file, whatever the earliness file
\* holds, and in every other case at epoch 0 with fresh state.
C19_ResumeCondition ==
  JustConstructed =>
     LET exists == files[CLASSIFICATION_PHASE_NAME] # <<>>
         stored == ModelLoad(files[CLASSIFICATION_PHASE_NAME][1])
     IN /\ resumed <=> (exists /\ ~overwriteGiven)
        /\ resumed =>
              /\ epoch = stored.epoch
              /\ optimizer = stored.optimizer_state_dict
              /\ logger.data = stored.logged_data
        /\ ~resumed =>
              /\ epoch = 0
              /\ optimizer = <<>>
              /\ logger.data = <<>>

\* A trainer was resumed after a completed run: the earliness file exists and
\* holds a later epoch than the one the trainer starts at.
C19_Witness ==
  /\ JustConstructed
  /\ resumed
  /\ files[EARLINESS_PHASE_NAME] # <<>>
  /\ ModelLoad(files[EARLINESS_PHASE_NAME][1]).epoch = epochs
  /\ epoch < epochs

\* A fresh trainer was constructed over an existing classification checkpoint
\* because overwrite was on; another with overwrite off and only an earliness file.
FreshOverCheckpoint ==
  /\ JustConstructed
  /\ ~resumed
  /\ overwriteGiven
  /\ files[CLASSIFICATION_PHASE_NAME] # <<>>
FreshBesideEarliness ==
  /\ JustConstructed
  /\ ~resumed
  /\ ~overwriteGiven
  /\ files[CLASSIFICATION_PHASE_NAME] = <<>>
  /\ files[EARLINESS_PHASE_NAME] # <<>>

====
